---------------------------- MODULE Spec2Model ----------------------------
(***************************************************************************)
(* Keyword Platform: the Angular front end (ContentComponent and the       *)
(* accounts, campaigns and translation components it hosts, the HTTP       *)
(* services they call), the flattenAndFilter utility and the opt-out       *)
(* step of the installation script.                                        *)
(***************************************************************************)
EXTENDS Integers, Sequences, FiniteSets, TLC

(***************************************************************************)
(* Bounds of the model.                                                    *)
(***************************************************************************)
\* Requests that may be awaiting their response at the same time.
MaxInFlight == 2
\* Longest array handed to flattenAndFilter, and longest inner array.
MaxArrays == 2
MaxInner == 2
\* Longest answer typed at the opt-out prompt.
MaxAnswer == 3

(***************************************************************************)
(* Values.                                                                 *)
(***************************************************************************)
\* JavaScript's undefined where a string is expected.
UNDEF == "<undefined>"
\* A FormControl value before any input, and after reset().
NullValue == "<null>"
\* What the user can type into an autocomplete input: some text that names
\* no option.
TypedTexts == {"txt"}

\* location.hostname of the local test server and of a deployment.
Hostnames == {"localhost", "hostname.0.0.0.0.nip.io"}

AccountBodies == {<<>>, <<"a1">>}
CampaignBodies == {<<>>, <<"c1">>}
GlossaryBodies == {<<"g1">>}
LanguageCodes == {"en", "de"}
\* Output bodies of the run endpoint, named by the asset they list.
RunBodies == {"assets1"}
\* HTTP failures: <<status, statusText>>.
HttpFailures == {<<500, "Internal Server Error">>}
ClientId == "aaa.bbb"

\* enum Worker
TRANSLATION_WORKER == "translationWorker"
\* enum RequestStatus
NONE == "None"
REQUESTED == "Requested"
RESPONDED == "Responded"
ERROR == "Error"
\* enum FontIcon
FontIconERROR == "error"
FontIconPRIORITY == "priority_high"
\* enum SelectAllOption
SelectAllOptionId == "0"

(***************************************************************************)
(* Array.prototype.join(','): undefined elements join as empty strings.    *)
(***************************************************************************)
RECURSIVE join(_)
join(arr) ==
    IF arr = <<>> THEN ""
    ELSE LET h == IF Head(arr) = UNDEF THEN "" ELSE Head(arr)
         IN IF Len(arr) = 1 THEN h ELSE h \o "," \o join(Tail(arr))

(***************************************************************************)
(* shared/utils.ts                                                         *)
(***************************************************************************)
\* Array.prototype.flat() of an array of arrays.
RECURSIVE flat(_)
flat(arrays) ==
    IF arrays = <<>> THEN <<>> ELSE Head(arrays) \o flat(Tail(arrays))

\* Array.prototype.indexOf, 1-based; 0 when the value is absent.
indexOf(array, value) ==
    IF \E i \in 1..Len(array) : array[i] = value
    THEN CHOOSE i \in 1..Len(array) :
            /\ array[i] = value
            /\ \A j \in 1..(i - 1) : array[j] # value
    ELSE 0

\* A plausible slip: keeps the last occurrence of a value, not the first.
flattenAndFilterKeepLast(arrays) ==
    LET flatten == flat(arrays)
        n == Len(flatten)
        filter[index \in 1..(n + 1)] ==
            IF index > n THEN <<>>
            ELSE (IF \A j \in (index + 1)..n : flatten[j] # flatten[index]
                  THEN <<flatten[index]>> ELSE <<>>) \o filter[index + 1]
    IN filter[1]

\* flatten.filter((value, index, array) => array.indexOf(value) === index)
flattenAndFilter(arrays) ==
    LET flatten == flat(arrays)
        n == Len(flatten)
        filter[index \in 1..(n + 1)] ==
            IF index > n THEN <<>>
            ELSE (IF indexOf(flatten, flatten[index]) = index
                  THEN <<flatten[index]>> ELSE <<>>) \o filter[index + 1]
    IN filter[1]

(***************************************************************************)
(* HttpClient and RxJS, as far as the services use them.  A request is     *)
(* [svc, method, pathname, params, body]; params and body are sequences    *)
(* of <<key, value>> pairs in the order the service lists them.  An        *)
(* observable is the sequence of notifications it delivers.                *)
(***************************************************************************)
RECURSIVE toQueryString(_)
toQueryString(params) ==
    IF params = <<>> THEN ""
    ELSE LET h == params[1][1] \o "=" \o params[1][2]
         IN IF Len(params) = 1 THEN h
            ELSE h \o "&" \o toQueryString(Tail(params))

\* HttpRequest.urlWithParams
urlWithParams(request) ==
    IF request.params = <<>> THEN request.pathname
    ELSE request.pathname \o "?" \o toQueryString(request.params)

\* new HttpResponse({body, status: 200, statusText: 'OK'})
HttpResponse(request, body) ==
    [ok |-> TRUE, status |-> 200, statusText |-> "OK",
     url |-> urlWithParams(request), body |-> body, message |-> ""]

\* The body a subscriber reads from a response that has none.
NullBody(request) == IF request.svc = "run" THEN UNDEF ELSE <<>>

\* new HttpErrorResponse({status, statusText, url}) for a failed request.
HttpErrorResponse(request, failure) ==
    [ok |-> FALSE, status |-> failure[1], statusText |-> failure[2],
     url |-> urlWithParams(request), body |-> NullBody(request),
     message |-> "Http failure response for " \o urlWithParams(request)
                    \o ": " \o ToString(failure[1]) \o " " \o failure[2]]

\* What the backend can answer to a request.
HttpEvents(request) ==
    LET bodies == CASE request.svc = "getAccounts" -> AccountBodies
                    [] request.svc = "getCampaigns" -> CampaignBodies
                    [] request.svc = "getGlossaries" -> GlossaryBodies
                    [] OTHER -> RunBodies
    IN {HttpResponse(request, b) : b \in bodies}
          \cup {HttpErrorResponse(request, f) : f \in HttpFailures}

\* http.get / http.post with observe: 'response': one response and
\* completion, or one error.
httpObservable(event) ==
    IF event.ok
    THEN <<[kind |-> "next", value |-> event], [kind |-> "complete", value |-> event]>>
    ELSE <<[kind |-> "error", value |-> event]>>

\* rxjs throwError(value)
throwError(value) == <<[kind |-> "error", value |-> value]>>

\* rxjs of(value)
of(value) ==
    <<[kind |-> "next", value |-> value], [kind |-> "complete", value |-> value]>>

\* A plausible slip: the failure is swallowed and handed on as a value.
handleErrorSwallow(error) == of(error)

\* handleError(error: HttpErrorResponse) of the three services.
handleError(error) == throwError(error.message)

\* rxjs catchError(selector): an error notification is replaced by the
\* observable the selector returns.
RECURSIVE catchError(_)
catchError(source) ==
    IF source = <<>> THEN <<>>
    ELSE IF Head(source).kind = "error" THEN handleError(Head(source).value)
    ELSE <<Head(source)>> \o catchError(Tail(source))

\* rxjs map(response => response)
map(source) == source

\* The notifications a subscriber's next and error callbacks receive.
delivered(source) == SelectSeq(source, LAMBDA n : n.kind \in {"next", "error"})

(***************************************************************************)
(* services/google-ads.service.ts, translation.service.ts, run.service.ts  *)
(***************************************************************************)
\* getPathname(api) of GoogleAdsService and RunService, getHost(api) of
\* TranslationService: the three are the same expression.
getPathname(hostname, api) ==
    IF hostname = "localhost" THEN "./test-api/" \o api \o ".json"
    ELSE "./proxy"

\* A plausible slip: the live deployment is sent a GET with query parameters.
getRequestMethodAlwaysGet(hostname, svc, api, values) ==
    [svc |-> svc, method |-> "GET", pathname |-> getPathname(hostname, api),
     params |-> values, body |-> <<>>]

\* getRequestMethod(api, values) of GoogleAdsService and RunService.
getRequestMethod(hostname, svc, api, values) ==
    IF hostname = "localhost"
    THEN [svc |-> svc, method |-> "GET",
          pathname |-> getPathname(hostname, api),
          params |-> values, body |-> <<>>]
    ELSE [svc |-> svc, method |-> "POST",
          pathname |-> getPathname(hostname, api),
          params |-> <<>>, body |-> values]

\* GoogleAdsService.getAccounts(): the request it issues.
getAccounts(hostname) ==
    [svc |-> "getAccounts", method |-> "GET",
     pathname |-> getPathname(hostname, "accessible_accounts"),
     params |-> << <<"endpoint", "accessible_accounts">> >>, body |-> <<>>]

\* GoogleAdsService.getCampaigns(accountIds): the request it issues.
getCampaigns(hostname, accountIds) ==
    getRequestMethod(hostname, "getCampaigns", "campaigns",
        << <<"selected_accounts", join(accountIds)>>,
           <<"endpoint", "campaigns">> >>)

\* TranslationService.getGlossaries(): the request it issues.
getGlossaries(hostname) ==
    [svc |-> "getGlossaries", method |-> "GET",
     pathname |-> getPathname(hostname, "list_glossaries"),
     params |-> << <<"endpoint", "list_glossaries">> >>, body |-> <<>>]

\* Boolean.prototype.toString()
toString(b) == IF b THEN "true" ELSE "false"

\* RunService.run(...): the request it issues.  args is the record of the
\* method's parameters.
runRequest(hostname, args) ==
    getRequestMethod(hostname, "run", "run",
        << <<"customer_ids", join(args.accountIds)>>,
           <<"campaigns", join(args.campaignIds)>>,
           <<"source_language_code", args.sourceLanguageCode>>,
           <<"target_language_codes", args.targetLanguageCode>>,
           <<"shorten_translations_to_char_limit",
             toString(args.shortenTranslationsToCharLimit)>>,
           <<"translate_keywords", toString(args.translateKeywords)>>,
           <<"translate_ads", toString(args.translateAds)>>,
           <<"translate_extensions", toString(args.translateExtensions)>>,
           <<"glossary_id", args.glossaryId>>,
           <<"workers_to_run", join(args.workers)>>,
           <<"client_id", args.clientId>>,
           <<"endpoint", "run">> >>)

\* The pipe of each service method applied to what HttpClient delivers:
\* .pipe(catchError(this.handleError), map(response => response)), and for
\* getCampaigns .pipe(map(...), catchError(this.handleError)).
servicePipe(request, event) ==
    IF request.svc = "getCampaigns"
    THEN catchError(map(httpObservable(event)))
    ELSE map(catchError(httpObservable(event)))

\* The value of the pair with the given key, UNDEF when there is none.
valueOf(pairs, key) ==
    IF \E i \in 1..Len(pairs) : pairs[i][1] = key
    THEN pairs[CHOOSE i \in 1..Len(pairs) : pairs[i][1] = key][2]
    ELSE UNDEF

(***************************************************************************)
(* State.                                                                  *)
(***************************************************************************)
VARIABLES
    hostname,   \* LOCATION_TOKEN: location.hostname
    http,       \* requests sent and not yet answered, in sending order
    content,    \* ContentComponent's fields
    tabs,       \* MatTab.disabled of the tabs run() disables
    entities,   \* entities of AccountsComponent and of CampaignsComponent
    multi,      \* the MultiSelectComponent of each of the two
    translation,\* TranslationComponent's fields
    single,     \* the SingleSelectComponent controls of TranslationComponent
    snackbar,   \* what MatSnackBar shows
    dialog,     \* what MatDialog was last opened with
    reported,   \* components that have emitted validationErrorEvent(false)
    chosen,     \* campaign IDs the user checked since the last account selection
    arrays,     \* flattenAndFilter: its argument
    filtered,   \* flattenAndFilter: its result, once called
    again,      \* flattenAndFilter applied to a list holding only that result
    pc,         \* install.sh: the step the script is at
    answer,     \* install.sh: the line the user types at the opt-out prompt
    yn,         \* install.sh: $yn
    OPT_OUT,    \* install.sh: $OPT_OUT
    indexHtml,  \* install.sh: the lines of ./ui/src/index.html
    tfVars,     \* terraform: var.opt_out of the plan
    GA_OPT_OUT, \* the backend service's GA_OPT_OUT environment variable
    svcCall,    \* a service method called on its own: its name and arguments
    svcIssued,  \* the requests that call handed to HttpClient
    svcEvent,   \* what the backend answered to the request
    svcNotes,   \* the notifications the subscriber of that call received
    dialogData, \* DialogComponent: the MAT_DIALOG_DATA it was constructed with
    dialogComponent \* DialogComponent: its fields and whether ngOnInit has run

uiVars == <<hostname, http, content, tabs, entities, multi, translation,
            single, snackbar, dialog, reported, chosen>>
utilVars == <<arrays, filtered, again>>
installVars == <<pc, answer, yn, OPT_OUT, indexHtml, tfVars, GA_OPT_OUT>>
svcVars == <<svcCall, svcIssued, svcEvent, svcNotes>>
dialogVars == <<dialogData, dialogComponent>>
vars == <<uiVars, utilVars, installVars, svcVars, dialogVars>>
\* What the front end does not touch.
notUI == <<utilVars, installVars, svcVars, dialogVars>>

\* enum ControlName
ACCOUNTS == "accounts"
CAMPAIGNS == "campaigns"
SOURCE_LANGUAGE == "source-language"
TARGET_LANGUAGE == "target-language"
GLOSSARY == "glossary"

MultiNames == {ACCOUNTS, CAMPAIGNS}
LanguageNames == {SOURCE_LANGUAGE, TARGET_LANGUAGE}
SingleNames == {SOURCE_LANGUAGE, TARGET_LANGUAGE, GLOSSARY}

\* An optional array: a field declared with ? or !, undefined until set.
Undefined == [isDef |-> FALSE, val |-> <<>>]
Defined(val) == [isDef |-> TRUE, val |-> val]

\* The value of a multi-select control after control.setValue(selectedOptions).
OptionsValue == "<selectedOptions>"

NoSnackbar == [open |-> FALSE, message |-> "", fontIcon |-> ""]
NoDialog == [open |-> FALSE, value |-> UNDEF]

(***************************************************************************)
(* Angular forms: a control is [disabled, value, errors].  A disabled      *)
(* control has no errors; enabling it, or setting its value while it is    *)
(* enabled, runs its validators.                                           *)
(***************************************************************************)
\* The [isRequired] input the accounts and campaigns templates give their
\* multi-select.
MultiIsRequired == TRUE

\* Validators.required on the multi-select control.
multiRequiredError(m, value) ==
    \/ value \in {NullValue, ""}
    \/ value = OptionsValue /\ m.selectedOptions = <<>>

\* AbstractControl.updateValueAndValidity() of the multi-select control
\* with the given value and disabled state: the errors it is left with.
multiErrors(m, value, disabled) ==
    IF ~disabled /\ MultiIsRequired /\ multiRequiredError(m, value)
    THEN {"required"} ELSE {}

\* MultiSelectComponent.removeAndUncheckAllSelectedOptions()
removeAndUncheckAllSelectedOptions(m) ==
    [m EXCEPT !.selected = {}, !.selectedOptions = <<>>]

\* MultiSelectComponent.disableAllSelectedOptions(disable): the checkboxes
\* after the first one.
disableAllSelectedOptions(m, disable) ==
    [m EXCEPT !.checkboxesDisabled = disable]

\* The control.statusChanges subscription of MultiSelectComponent.ngOnInit.
statusChanges(m) ==
    IF Len(m.selectedOptions) > 0 /\ m.control.errors # {}
    THEN removeAndUncheckAllSelectedOptions(disableAllSelectedOptions(m, FALSE))
    ELSE m

\* The multi-select after its control took the value and disabled state and
\* its subscribers ran.
multiUpdated(m, value, disabled) ==
    statusChanges([m EXCEPT !.control =
        [disabled |-> disabled, value |-> value,
         errors |-> multiErrors(m, value, disabled)]])

\* hasError() of AccountsComponent and CampaignsComponent.
multiHasError(m) == m.control.errors # {}

\* MultiSelectComponent.ngOnChanges: the new options are unchecked, and the
\* template's ngFor renders a new, enabled checkbox for each.
rendered(m) == [m EXCEPT !.selected = {}, !.checkboxesDisabled = FALSE]

\* MultiSelectComponent.ngOnChanges: the options listed for the entities.
selectionValues(ents) ==
    IF ~ents.isDef THEN <<>>
    ELSE (IF Len(ents.val) > 1 THEN <<SelectAllOptionId>> ELSE <<>>) \o ents.val

(***************************************************************************)
(* translation/translation.component.ts and the single-select controls     *)
(***************************************************************************)
\* The language the validator of the named control compares with.
otherLanguage(tr, name) ==
    IF name = SOURCE_LANGUAGE THEN tr.targetLanguageCode
    ELSE tr.sourceLanguageCode

\* A plausible slip: the control is compared with its own language code.
isSameLanguageValidatorOwn(tr, name, value) ==
    LET language == IF name = SOURCE_LANGUAGE THEN tr.sourceLanguageCode
                    ELSE tr.targetLanguageCode
    IN IF language \in {UNDEF, ""} \/ value \notin LanguageCodes THEN {}
       ELSE IF value = language THEN {"sameLanguage"} ELSE {}

\* TranslationComponent.isSameLanguageValidator(controlName) applied to a
\* control value; control.value?.['code'] is defined only for an option.
isSameLanguageValidator(tr, name, value) ==
    LET language == otherLanguage(tr, name)
    IN IF language \in {UNDEF, ""} \/ value \notin LanguageCodes THEN {}
       ELSE IF value = language THEN {"sameLanguage"} ELSE {}

\* SingleSelectComponent.inputTextValidator(): text that names no option.
inputTextValidator(value) ==
    IF value \in {NullValue, ""} THEN {}
    ELSE IF value \notin LanguageCodes THEN {"invalidText"} ELSE {}

\* Validators.required on a single-select control.
requiredValidator(value) ==
    IF value \in {NullValue, ""} THEN {"required"} ELSE {}

\* The errors a single-select control is left with.  The glossary control
\* has no validator.
singleErrors(tr, name, value, disabled) ==
    IF disabled \/ name = GLOSSARY THEN {}
    ELSE requiredValidator(value) \cup inputTextValidator(value)
            \cup isSameLanguageValidator(tr, name, value)

\* control.disable() / control.enable() through disableControl().
disableControl(tr, sg, name, isDisabled) ==
    [sg EXCEPT ![name] =
        [disabled |-> isDisabled, value |-> sg[name].value,
         errors |-> singleErrors(tr, name, sg[name].value, isDisabled)]]

\* TranslationComponent.hasError()
translationHasError(sg) == \E name \in SingleNames : sg[name].errors # {}

\* A plausible slip: the glossary control follows the others whether or not
\* glossaries are available.
translationDisableAll(tr, sg, isDisabled) ==
    disableControl(tr, disableControl(tr,
        disableControl(tr, sg, GLOSSARY, isDisabled),
        SOURCE_LANGUAGE, isDisabled), TARGET_LANGUAGE, isDisabled)

\* TranslationComponent.disable(isDisabled): the controls afterwards.
translationDisable(tr, sg, isDisabled) ==
    LET g == IF tr.isGlossaryAvailable
             THEN disableControl(tr, sg, GLOSSARY, isDisabled) ELSE sg
    IN disableControl(tr, disableControl(tr, g, SOURCE_LANGUAGE, isDisabled),
                      TARGET_LANGUAGE, isDisabled)

\* TranslationComponent.getTranslationData()
getTranslationData(tr) ==
    [sourceLanguageCode |-> tr.sourceLanguageCode,
     targetLanguageCode |-> tr.targetLanguageCode,
     glossaryId |-> tr.glossaryId,
     translateKeywords |-> tr.translateKeywords,
     translateAds |-> tr.translateAds,
     translateExtensions |-> tr.translateExtensions,
     shortenTranslationsToCharLimit |-> tr.shortenTranslationsToCharLimit]

(***************************************************************************)
(* content/content.component.ts                                            *)
(***************************************************************************)
\* A plausible slip: the campaigns flag is left out.
hasTranslationErrorNoCampaigns(c) ==
    c.translationHasValidationError \/ c.translationAccountsHasValidationError

\* ContentComponent.hasTranslationError()
hasTranslationError(c) ==
    \/ c.translationHasValidationError
    \/ c.translationAccountsHasValidationError
    \/ c.translationCampaignsHasValidationError

\* [disabled]="hasTranslationError()" of the Run button.
runButtonDisabled == hasTranslationError(content)

\* ContentComponent.isRunRequestedStatus()
isRunRequestedStatus == content.requestStatus = REQUESTED

\* validationErrorEvent.emit(value): who has reported 'no validation error'.
report(rep, name, value) == IF value THEN rep ELSE rep \cup {name}

\* The three validationErrorEvent handlers of ContentComponent, applied to
\* the values the three components emit.
validationErrors(c, accountsError, campaignsError, translationError) ==
    [c EXCEPT !.translationAccountsHasValidationError = accountsError,
              !.translationCampaignsHasValidationError = campaignsError,
              !.translationHasValidationError = translationError]

\* An optional ID list as run() pushes it: flat() keeps an undefined element
\* as it is, which is what flattening [undefined] gives.
pushed(ids) == IF ids.isDef THEN ids.val ELSE <<UNDEF>>

\* A plausible slip: the tab's data is sent whatever hasTranslationError()
\* says.
runArgsUnchecked(c, tr) ==
    LET data == getTranslationData(tr)
    IN [accountIds |-> flattenAndFilter(<<pushed(c.translationAccountIds)>>),
        campaignIds |-> flattenAndFilter(<<pushed(c.translationCampaignIds)>>),
        sourceLanguageCode |-> data.sourceLanguageCode,
        targetLanguageCode |-> data.targetLanguageCode,
        shortenTranslationsToCharLimit |-> data.shortenTranslationsToCharLimit,
        translateKeywords |-> data.translateKeywords,
        translateAds |-> data.translateAds,
        translateExtensions |-> data.translateExtensions,
        glossaryId |-> data.glossaryId,
        workers |-> <<TRANSLATION_WORKER>>,
        clientId |-> ClientId]

\* ContentComponent.run(): the arguments it hands to RunService.run().
runArgs(c, tr) ==
    LET ok == ~hasTranslationError(c)
        accountIds == IF ok THEN <<pushed(c.translationAccountIds)>> ELSE <<>>
        campaignIds == IF ok THEN <<pushed(c.translationCampaignIds)>> ELSE <<>>
        workers == IF ok THEN <<TRANSLATION_WORKER>> ELSE <<>>
        data == getTranslationData(tr)
    IN [accountIds |-> flattenAndFilter(accountIds),
        campaignIds |-> flattenAndFilter(campaignIds),
        sourceLanguageCode |-> IF ok THEN data.sourceLanguageCode ELSE "",
        targetLanguageCode |-> IF ok THEN data.targetLanguageCode ELSE "",
        shortenTranslationsToCharLimit |->
            IF ok THEN data.shortenTranslationsToCharLimit ELSE FALSE,
        translateKeywords |-> IF ok THEN data.translateKeywords ELSE FALSE,
        translateAds |-> IF ok THEN data.translateAds ELSE FALSE,
        translateExtensions |-> IF ok THEN data.translateExtensions ELSE FALSE,
        glossaryId |-> IF ok THEN data.glossaryId ELSE "",
        workers |-> workers,
        clientId |-> ClientId]

(***************************************************************************)
(* multi-select/multi-select.component.ts                                  *)
(***************************************************************************)
\* Array.prototype.splice(index, 1) with a 1-based index; 0 stands for the
\* -1 of findIndex, which splice counts from the end of the array.
splice(array, index) ==
    LET at == IF index = 0 THEN Len(array) ELSE index
    IN IF array = <<>> THEN <<>>
       ELSE SubSeq(array, 1, at - 1) \o SubSeq(array, at + 1, Len(array))

\* this.control.setValue(this.getAllSelectedOptions()) and the line after it.
setSelectedOptions(m) ==
    [multiUpdated(m, OptionsValue, m.control.disabled)
        EXCEPT !.hasUpdatedSelection = TRUE]

\* A plausible slip: the handler does not halt when every option is
\* selected.
onCheckboxChangeNoHalt(m, sv, option) ==
    LET nowSelected == option \notin m.selected
        flagged == IF nowSelected THEN m.selected \cup {option}
                   ELSE m.selected \ {option}
    IN IF option = SelectAllOptionId
       THEN IF nowSelected
            THEN setSelectedOptions(disableAllSelectedOptions(
                    [m EXCEPT !.selected = flagged, !.selectedOptions = sv],
                    TRUE))
            ELSE setSelectedOptions(removeAndUncheckAllSelectedOptions(
                    disableAllSelectedOptions(m, FALSE)))
       ELSE IF nowSelected
            THEN setSelectedOptions(
                    [m EXCEPT !.selected = flagged,
                              !.selectedOptions = Append(@, option)])
            ELSE setSelectedOptions(
                    [m EXCEPT !.selected = flagged,
                              !.selectedOptions =
                                  splice(@, indexOf(@, option))])

\* MultiSelectComponent.onCheckboxChange(selectedOption), sv being
\* this.selectionValues.
onCheckboxChange(m, sv, option) ==
    LET nowSelected == option \notin m.selected
        flagged == IF nowSelected THEN m.selected \cup {option}
                   ELSE m.selected \ {option}
    IN IF option = SelectAllOptionId
       THEN IF nowSelected
            THEN setSelectedOptions(disableAllSelectedOptions(
                    [m EXCEPT !.selected = flagged, !.selectedOptions = sv],
                    TRUE))
            ELSE setSelectedOptions(removeAndUncheckAllSelectedOptions(
                    disableAllSelectedOptions(m, FALSE)))
       ELSE IF Len(m.selectedOptions) = Len(sv)
            THEN [m EXCEPT !.selected = m.selected \ {option}]
       ELSE IF nowSelected
            THEN setSelectedOptions(
                    [m EXCEPT !.selected = flagged,
                              !.selectedOptions = Append(@, option)])
            ELSE setSelectedOptions(
                    [m EXCEPT !.selected = flagged,
                              !.selectedOptions =
                                  splice(@, indexOf(@, option))])

\* The options a click on the unchecked option adds to selectedOptions.
checkedBy(m, sv, option) ==
    LET after == onCheckboxChange(m, sv, option).selectedOptions
    IN {after[k] : k \in 1..Len(after)}
           \ ({m.selectedOptions[k] : k \in 1..Len(m.selectedOptions)}
                  \cup {SelectAllOptionId})

\* MultiSelectComponent.onClosed(): the Selection[] it emits.
emitted(m) ==
    IF Head(m.selectedOptions) = SelectAllOptionId
    THEN Tail(m.selectedOptions) ELSE m.selectedOptions

(***************************************************************************)
(* The application after construction: every control disabled, the         *)
(* accounts request of AccountsComponent.ngOnInit sent.                    *)
(***************************************************************************)
InitControl == [disabled |-> TRUE, value |-> NullValue, errors |-> {}]

\* The components' fields after construction.
InitFields ==
    /\ content = [translationAccountIds |-> Undefined,
                  translationCampaignIds |-> Undefined,
                  translationAccountsHasValidationError |-> TRUE,
                  translationCampaignsHasValidationError |-> TRUE,
                  translationHasValidationError |-> TRUE,
                  requestStatus |-> NONE]
    /\ tabs = [disabled |-> FALSE]
    /\ entities = [c \in MultiNames |-> Undefined]
    /\ multi = [c \in MultiNames |->
                  [control |-> InitControl, selectedOptions |-> <<>>,
                   selected |-> {}, hasUpdatedSelection |-> FALSE,
                   checkboxesDisabled |-> FALSE]]
    /\ translation = [sourceLanguageCode |-> UNDEF,
                      targetLanguageCode |-> UNDEF,
                      glossaryId |-> UNDEF,
                      glossaries |-> Undefined,
                      isGlossaryAvailable |-> FALSE,
                      translateKeywords |-> TRUE,
                      translateAds |-> TRUE,
                      translateExtensions |-> TRUE,
                      shortenTranslationsToCharLimit |-> FALSE]
    /\ single = [name \in SingleNames |-> InitControl]
    /\ snackbar = NoSnackbar
    /\ dialog = NoDialog
    /\ reported = {}
    /\ chosen = {}

InitUI ==
    /\ hostname = "hostname.0.0.0.0.nip.io"
    /\ http = <<getAccounts(hostname)>>
    /\ InitFields

\* The front end left alone, where a specification is about something else.
IdleUI == hostname = "localhost" /\ http = <<>> /\ InitFields

IdleUtil == arrays = <<>> /\ filtered = Undefined /\ again = Undefined

IdleInstall ==
    /\ pc = "idle"
    /\ answer = <<>>
    /\ yn = <<>>
    /\ OPT_OUT = UNDEF
    /\ indexHtml = <<>>
    /\ tfVars = UNDEF
    /\ GA_OPT_OUT = UNDEF

NoCall == [method |-> "none", args |-> <<>>]
NoEvent == [ok |-> FALSE, status |-> 0, statusText |-> "", url |-> "",
            body |-> UNDEF, message |-> ""]

\* No result dialog has been constructed.
IdleDialog ==
    /\ dialogData = [status |-> Undefined, value |-> Undefined]
    /\ dialogComponent = [state |-> "closed", assetUrls |-> UNDEF,
                          message |-> UNDEF, status |-> Undefined]

IdleSvc ==
    /\ svcCall = NoCall
    /\ svcIssued = <<>>
    /\ svcEvent = NoEvent
    /\ svcNotes = <<>>

\* The pending requests without the i-th.
answered(i) == SubSeq(http, 1, i - 1) \o SubSeq(http, i + 1, Len(http))

\* The notification the subscriber of the i-th pending request receives
\* when the backend answers it with the event.
notification(i, event) == Head(delivered(servicePipe(http[i], event)))

(***************************************************************************)
(* Operations of the front end.  The selected tab is always the translate  *)
(* tab (the only other tab is disabled), so the handlers' checks of        *)
(* getSelectedTabIndex() === TabIndex.TRANSLATE succeed.                   *)
(***************************************************************************)
\* ContentComponent.accountsLoad(value): the single-select controls after.
accountsLoad(value) == translationDisable(translation, single, ~value)

\* AccountsComponent.getAccounts(): its subscriber, on the answer.
AccountsResponse(i, event) ==
    /\ http[i].svc = "getAccounts"
    /\ LET n == notification(i, event)
           loaded == n.kind = "next" /\ Len(n.value.body) > 0
           m == IF loaded
                THEN multiUpdated(multi[ACCOUNTS],
                                  multi[ACCOUNTS].control.value, FALSE)
                ELSE multi[ACCOUNTS]
           sg == accountsLoad(loaded)
       IN /\ entities' = IF n.kind = "next"
                         THEN [entities EXCEPT ![ACCOUNTS] = Defined(n.value.body)]
                         ELSE entities
          /\ multi' = [multi EXCEPT ![ACCOUNTS] =
                          IF n.kind = "next" THEN rendered(m) ELSE m]
          /\ single' = sg
          /\ content' = validationErrors(content,
                 IF loaded THEN multiHasError(m)
                 ELSE content.translationAccountsHasValidationError,
                 content.translationCampaignsHasValidationError,
                 translationHasError(sg))
          /\ reported' = report(
                 IF loaded THEN report(reported, ACCOUNTS, multiHasError(m))
                 ELSE reported,
                 "translation", translationHasError(sg))
          /\ snackbar' =
                 IF loaded THEN snackbar
                 ELSE IF n.kind = "next"
                 THEN [open |-> TRUE,
                       message |-> "No eligible accounts available.",
                       fontIcon |-> FontIconPRIORITY]
                 ELSE [open |-> TRUE, message |-> n.value,
                       fontIcon |-> FontIconERROR]
          /\ http' = IF loaded THEN Append(answered(i), getGlossaries(hostname))
                     ELSE answered(i)
    /\ UNCHANGED <<hostname, tabs, translation, dialog>>
    /\ UNCHANGED <<chosen, notUI>>

\* TranslationComponent.getGlossaries(): its subscriber, on the answer.
GlossariesResponse(i, event) ==
    /\ http[i].svc = "getGlossaries"
    /\ LET n == notification(i, event)
           tr == [translation EXCEPT !.isGlossaryAvailable = TRUE,
                                     !.glossaries = Defined(n.value.body)]
           enable == /\ ~single[SOURCE_LANGUAGE].disabled
                     /\ ~single[TARGET_LANGUAGE].disabled
           sg == disableControl(tr, single, GLOSSARY, FALSE)
       IN IF n.kind = "next"
          THEN /\ translation' = tr
               /\ single' = IF enable THEN sg ELSE single
               /\ content' = IF enable
                     THEN [content EXCEPT !.translationHasValidationError =
                                              translationHasError(sg)]
                     ELSE content
               /\ reported' = IF enable
                     THEN report(reported, "translation", translationHasError(sg))
                     ELSE reported
          ELSE UNCHANGED <<translation, single, content, reported>>
    /\ http' = answered(i)
    /\ UNCHANGED <<hostname, tabs, entities, multi, snackbar, dialog>>
    /\ UNCHANGED <<chosen, notUI>>

\* CampaignsComponent.getCampaigns(accountIds): its subscriber, on the answer.
CampaignsResponse(i, event) ==
    /\ http[i].svc = "getCampaigns"
    /\ LET n == notification(i, event)
           loaded == n.kind = "next" /\ Len(n.value.body) > 0
           m == IF loaded
                THEN multiUpdated(multi[CAMPAIGNS],
                                  multi[CAMPAIGNS].control.value, FALSE)
                ELSE multi[CAMPAIGNS]
       IN /\ entities' = IF n.kind = "next"
                         THEN [entities EXCEPT ![CAMPAIGNS] = Defined(n.value.body)]
                         ELSE entities
          /\ multi' = [multi EXCEPT ![CAMPAIGNS] =
                          IF n.kind = "next" THEN rendered(m)
                          ELSE m]
          /\ content' = IF loaded
                 THEN [content EXCEPT !.translationCampaignsHasValidationError =
                                          multiHasError(m)]
                 ELSE content
          /\ reported' = IF loaded
                 THEN report(reported, CAMPAIGNS, multiHasError(m))
                 ELSE reported
          /\ snackbar' =
                 IF loaded THEN snackbar
                 ELSE IF n.kind = "next"
                 THEN [open |-> TRUE,
                       message |-> "No eligible campaigns available. "
                                     \o "Please select other accounts.",
                       fontIcon |-> FontIconPRIORITY]
                 ELSE [open |-> TRUE, message |-> n.value,
                       fontIcon |-> FontIconERROR]
    /\ http' = answered(i)
    /\ UNCHANGED <<hostname, tabs, translation, single, dialog>>
    /\ UNCHANGED <<chosen, notUI>>

\* The user clicks an option of the accounts or campaigns panel.
CheckboxChange(c, option) ==
    /\ ~multi[c].control.disabled
    /\ \E k \in 1..Len(selectionValues(entities[c])) :
          selectionValues(entities[c])[k] = option
    /\ LET m == onCheckboxChange(multi[c], selectionValues(entities[c]), option)
           \* The handler returns before setValue when every listed option is
           \* already selected and the option is not Select All.
           emits == \/ option = SelectAllOptionId
                    \/ Len(multi[c].selectedOptions) #
                           Len(selectionValues(entities[c]))
       IN /\ multi' = [multi EXCEPT ![c] = m]
          /\ content' = IF ~emits THEN content
                ELSE IF c = ACCOUNTS
                THEN [content EXCEPT !.translationAccountsHasValidationError =
                                         multiHasError(m)]
                ELSE [content EXCEPT !.translationCampaignsHasValidationError =
                                         multiHasError(m)]
          /\ reported' = IF emits THEN report(reported, c, multiHasError(m))
                         ELSE reported
    /\ UNCHANGED <<hostname, http, tabs, entities, translation, single,
                   snackbar, dialog>>
    /\ chosen' = IF c = CAMPAIGNS /\ option \notin multi[c].selected
                 THEN chosen \cup checkedBy(multi[c], selectionValues(entities[c]), option)
                 ELSE chosen
    /\ UNCHANGED notUI

\* The user types into the accounts or campaigns input.
TypeMulti(c, text) ==
    /\ ~multi[c].control.disabled
    /\ LET m == multiUpdated(multi[c], text, FALSE)
       IN /\ multi' = [multi EXCEPT ![c] = m]
          /\ content' = IF c = ACCOUNTS
                THEN [content EXCEPT !.translationAccountsHasValidationError =
                                         multiHasError(m)]
                ELSE [content EXCEPT !.translationCampaignsHasValidationError =
                                         multiHasError(m)]
          /\ reported' = report(reported, c, multiHasError(m))
    /\ UNCHANGED <<hostname, http, tabs, entities, translation, single,
                   snackbar, dialog>>
    /\ UNCHANGED <<chosen, notUI>>

\* ContentComponent.disable(isDisabled): the multi-select components after.
\* The button getButtonByTabIndex() returns is left as it is.
disableMulti(isDisabled) ==
    [c \in MultiNames |->
        multiUpdated(multi[c], multi[c].control.value, isDisabled)]

\* The panel of the accounts or campaigns autocomplete closes after the
\* selection changed: onClosed(), the component's selection(value), and
\* ContentComponent.accountSelection(values) or campaignSelection(values).
ClosePanel(c) ==
    /\ ~multi[c].control.disabled
    /\ Len(multi[c].selectedOptions) > 0
    /\ multi[c].hasUpdatedSelection
    /\ LET values == emitted(multi[c])
           closed == [multi[c] EXCEPT !.hasUpdatedSelection = FALSE]
           \* campaignsComponent.reset()
           reset == multiUpdated(multi[CAMPAIGNS], NullValue,
                                 multi[CAMPAIGNS].control.disabled)
       IN IF Len(values) = 0
          THEN /\ multi' = [multi EXCEPT ![c] = closed]
               /\ UNCHANGED <<content, http, snackbar, reported>>
          ELSE IF c = ACCOUNTS
          THEN /\ Len(http) < MaxInFlight
               /\ multi' = [multi EXCEPT ![ACCOUNTS] = closed,
                                         ![CAMPAIGNS] = reset]
               /\ content' = [content EXCEPT
                      !.translationCampaignsHasValidationError =
                          multiHasError(reset),
                      !.translationAccountIds = Defined(values)]
               /\ reported' = report(reported, CAMPAIGNS, multiHasError(reset))
               /\ snackbar' = NoSnackbar
               /\ http' = Append(http, getCampaigns(hostname, values))
          ELSE /\ multi' = [multi EXCEPT ![c] = closed]
               /\ content' = [content EXCEPT
                      !.translationCampaignIds = Defined(values)]
               /\ UNCHANGED <<http, snackbar, reported>>
    /\ UNCHANGED <<hostname, tabs, entities, translation, single, dialog>>
    /\ chosen' = IF c = ACCOUNTS /\ Len(emitted(multi[c])) > 0 THEN {} ELSE chosen
    /\ UNCHANGED notUI

\* The user picks a language option: the autocomplete sets the control's
\* value, which runs its validators, and then emits optionSelected, on which
\* sourceLanguageSelection / targetLanguageSelection store the code.
SelectLanguage(name, code) ==
    /\ ~single[name].disabled
    /\ LET sg == [single EXCEPT ![name] =
                    [disabled |-> FALSE, value |-> code,
                     errors |-> singleErrors(translation, name, code, FALSE)]]
       IN /\ single' = sg
          /\ content' = [content EXCEPT !.translationHasValidationError =
                                            translationHasError(sg)]
          /\ reported' = report(reported, "translation", translationHasError(sg))
    /\ translation' = IF name = SOURCE_LANGUAGE
                      THEN [translation EXCEPT !.sourceLanguageCode = code]
                      ELSE [translation EXCEPT !.targetLanguageCode = code]
    /\ UNCHANGED <<hostname, http, tabs, entities, multi, snackbar, dialog>>
    /\ UNCHANGED <<chosen, notUI>>

\* The user types into a language input: no option is selected, and a
\* required single-select emits nothing when its panel closes.
TypeLanguage(name, text) ==
    /\ ~single[name].disabled
    /\ LET sg == [single EXCEPT ![name] =
                    [disabled |-> FALSE, value |-> text,
                     errors |-> singleErrors(translation, name, text, FALSE)]]
       IN /\ single' = sg
          /\ content' = [content EXCEPT !.translationHasValidationError =
                                            translationHasError(sg)]
          /\ reported' = report(reported, "translation", translationHasError(sg))
    /\ UNCHANGED <<hostname, http, tabs, entities, multi, translation,
                   snackbar, dialog>>
    /\ UNCHANGED <<chosen, notUI>>

\* The user picks a glossary: glossarySelection(value).
SelectGlossary(id) ==
    /\ ~single[GLOSSARY].disabled
    /\ translation.glossaries.isDef
    /\ \E k \in 1..Len(translation.glossaries.val) :
          translation.glossaries.val[k] = id
    /\ LET sg == [single EXCEPT ![GLOSSARY] =
                    [disabled |-> FALSE, value |-> id, errors |-> {}]]
       IN /\ single' = sg
          /\ content' = [content EXCEPT !.translationHasValidationError =
                                            translationHasError(sg)]
          /\ reported' = report(reported, "translation", translationHasError(sg))
    /\ translation' = [translation EXCEPT !.glossaryId = id]
    /\ UNCHANGED <<hostname, http, tabs, entities, multi, snackbar, dialog>>
    /\ UNCHANGED <<chosen, notUI>>

\* A plausible slip: the status is not set when the request is sent.
requestedStatusKept(c) == c

\* this.requestStatus = RequestStatus.REQUESTED
requestedStatus(c) == [c EXCEPT !.requestStatus = REQUESTED]

\* ContentComponent.run()
run ==
    /\ Len(http) < MaxInFlight
    /\ LET sg == translationDisable(translation, single, TRUE)
           m == disableMulti(TRUE)
       IN /\ snackbar' = NoSnackbar
          /\ http' = Append(http, runRequest(hostname, runArgs(content, translation)))
          /\ single' = sg
          /\ multi' = m
          /\ tabs' = [disabled |-> TRUE]
          /\ content' = validationErrors(requestedStatus(content),
                 multiHasError(m[ACCOUNTS]), multiHasError(m[CAMPAIGNS]),
                 translationHasError(sg))
          /\ reported' = report(report(report(reported,
                 "translation", translationHasError(sg)),
                 ACCOUNTS, multiHasError(m[ACCOUNTS])),
                 CAMPAIGNS, multiHasError(m[CAMPAIGNS]))
    /\ UNCHANGED <<hostname, entities, translation, dialog>>
    /\ UNCHANGED <<chosen, notUI>>

\* The user clicks the Run button, which the template disables while
\* hasTranslationError() holds.
Run == ~runButtonDisabled /\ run

\* A plausible slip: a failure is reported through the result dialog.
runErrorToDialog(n, sb, dg) ==
    [status |-> ERROR, snackbar |-> sb,
     dialog |-> [open |-> TRUE, value |-> UNDEF]]

\* The error callback of run(): the status, snackbar and dialog after it.
runError(n, sb, dg) ==
    [status |-> ERROR,
     snackbar |-> [open |-> TRUE, message |-> n.value,
                   fontIcon |-> FontIconERROR],
     dialog |-> dg]

\* The success callback of run(): the status, snackbar and dialog after it.
runSuccess(n, sb, dg) ==
    [status |-> RESPONDED, snackbar |-> sb,
     dialog |-> [open |-> TRUE, value |-> n.value.body]]

\* RunService.run(...).subscribe(...): the subscriber, on the answer.
RunResponse(i, event) ==
    /\ http[i].svc = "run"
    /\ LET n == notification(i, event)
           out == IF n.kind = "next" THEN runSuccess(n, snackbar, dialog)
                  ELSE runError(n, snackbar, dialog)
           sg == translationDisable(translation, single, FALSE)
           m == disableMulti(FALSE)
       IN /\ single' = sg
          /\ multi' = m
          /\ tabs' = [disabled |-> FALSE]
          /\ content' = validationErrors(
                 [content EXCEPT !.requestStatus = out.status],
                 multiHasError(m[ACCOUNTS]), multiHasError(m[CAMPAIGNS]),
                 translationHasError(sg))
          /\ reported' = report(report(report(reported,
                 "translation", translationHasError(sg)),
                 ACCOUNTS, multiHasError(m[ACCOUNTS])),
                 CAMPAIGNS, multiHasError(m[CAMPAIGNS]))
          /\ snackbar' = out.snackbar
          /\ dialog' = out.dialog
    /\ http' = answered(i)
    /\ UNCHANGED <<hostname, entities, translation>>
    /\ UNCHANGED <<chosen, notUI>>

Next ==
    \/ \E i \in 1..Len(http) : \E event \in HttpEvents(http[i]) :
          AccountsResponse(i, event)
    \/ \E i \in 1..Len(http) : \E event \in HttpEvents(http[i]) :
          GlossariesResponse(i, event)
    \/ \E i \in 1..Len(http) : \E event \in HttpEvents(http[i]) :
          CampaignsResponse(i, event)
    \/ \E i \in 1..Len(http) : \E event \in HttpEvents(http[i]) :
          RunResponse(i, event)
    \/ \E c \in MultiNames : \E option \in {SelectAllOptionId, "a1", "a2", "c1", "c2"} :
          CheckboxChange(c, option)
    \/ \E c \in MultiNames : \E text \in TypedTexts : TypeMulti(c, text)
    \/ \E c \in MultiNames : ClosePanel(c)
    \/ \E name \in LanguageNames : \E code \in LanguageCodes :
          SelectLanguage(name, code)
    \/ \E name \in LanguageNames : \E text \in TypedTexts :
          TypeLanguage(name, text)
    \/ \E id \in {"g1"} : SelectGlossary(id)
    \/ Run

Init == InitUI /\ IdleUtil /\ IdleInstall /\ IdleSvc /\ IdleDialog

Spec == Init /\ [][Next]_vars

(***************************************************************************)
(* shared/utils.ts on its own: flattenAndFilter applied to an array of     *)
(* arrays, and again to an array holding only the result, as run() would   *)
(* if a single tab had produced it.                                        *)
(***************************************************************************)
\* The sequences over S of length at most n.
SeqsUpTo(S, n) == UNION {[1..k -> S] : k \in 0..n}

\* The IDs the arrays hold.
UtilValues == {"1", "2", "3"}

InitUtil ==
    /\ arrays \in SeqsUpTo(SeqsUpTo(UtilValues, MaxInner), MaxArrays)
    /\ filtered = Undefined
    /\ again = Undefined

\* flattenAndFilter(arrays)
Flatten ==
    /\ ~filtered.isDef
    /\ filtered' = Defined(flattenAndFilter(arrays))
    /\ UNCHANGED <<arrays, again>>
    /\ UNCHANGED <<uiVars, installVars, svcVars, dialogVars>>

\* flattenAndFilter([result])
FlattenAgain ==
    /\ filtered.isDef
    /\ ~again.isDef
    /\ again' = Defined(flattenAndFilter(<<filtered.val>>))
    /\ UNCHANGED <<arrays, filtered>>
    /\ UNCHANGED <<uiVars, installVars, svcVars, dialogVars>>

NextUtil == Flatten \/ FlattenAgain

InitSpecUtil == InitUtil /\ IdleUI /\ IdleInstall /\ IdleSvc /\ IdleDialog

SpecUtil == InitSpecUtil /\ [][NextUtil]_vars

(***************************************************************************)
(* setup/install.sh: the opt-out prompt and what follows from the answer.  *)
(* A string the script handles is the sequence of its characters.          *)
(***************************************************************************)
\* The characters an answer is made of.
AnswerChars == {"y", "Y", "e", "E", "s", "S", "n"}

\* The lines of ./ui/src/index.html the script looks for, and one it does not.
GtagComment == "<!-- Google tag (gtag.js) -->"
GtagScript ==
    "<script async src=\"https://www.googletagmanager.com/gtag/js?id=G-C0ZGCTLG7Z\"></script>"
OptOutMessage == "<!-- User opted out of Google Analytics. -->"
IndexHtml == <<"<head>", GtagComment, GtagScript, "</head>",
               "<body><app-root></app-root></body>">>

\* tr '[:upper:]' '[:lower:]' on one character.
lower(ch) ==
    CASE ch = "Y" -> "y"
      [] ch = "E" -> "e"
      [] ch = "S" -> "s"
      [] OTHER -> ch

\* tr '[:upper:]' '[:lower:]' <<< "$yn"
trLower(string) == [i \in DOMAIN string |-> lower(string[i])]

\* A plausible slip: any answer that starts with y opts out.
isOptOutPrefix(string) == string # <<>> /\ string[1] = "y"

\* [[ "$yn" == "y" || "$yn" == "yes" ]]
isOptOut(string) == string = <<"y">> \/ string = <<"y", "e", "s">>

\* sed -i "s|pattern|replacement|g" file, for a pattern that is a whole line.
sed(lines, pattern, replacement) ==
    [i \in DOMAIN lines |->
        IF lines[i] = pattern THEN replacement ELSE lines[i]]

InitInstall ==
    /\ pc = "read"
    /\ answer = <<>>
    /\ yn = <<>>
    /\ OPT_OUT = UNDEF
    /\ indexHtml = IndexHtml
    /\ tfVars = UNDEF
    /\ GA_OPT_OUT = UNDEF

\* read -p "Do you want to opt out ...? (N/n) " yn
Read ==
    /\ pc = "read"
    /\ \E typed \in SeqsUpTo(AnswerChars, MaxAnswer) :
          answer' = typed /\ yn' = typed
    /\ pc' = "default"
    /\ UNCHANGED <<OPT_OUT, indexHtml, tfVars, GA_OPT_OUT>>
    /\ UNCHANGED <<uiVars, utilVars, svcVars, dialogVars>>

\* if [[ -z "$yn" ]]; then yn="$opt_out"; fi, with opt_out="N"
DefaultAnswer ==
    /\ pc = "default"
    /\ yn' = IF yn = <<>> THEN <<"N">> ELSE yn
    /\ pc' = "lower"
    /\ UNCHANGED <<answer, OPT_OUT, indexHtml, tfVars, GA_OPT_OUT>>
    /\ UNCHANGED <<uiVars, utilVars, svcVars, dialogVars>>

\* yn=$(tr '[:upper:]' '[:lower:]' <<< "$yn")
Lowercase ==
    /\ pc = "lower"
    /\ yn' = trLower(yn)
    /\ pc' = "test"
    /\ UNCHANGED <<answer, OPT_OUT, indexHtml, tfVars, GA_OPT_OUT>>
    /\ UNCHANGED <<uiVars, utilVars, svcVars, dialogVars>>

\* The if statement on the answer: OPT_OUT and, on opt-out, the two sed
\* commands on the index page.
OptOut ==
    /\ pc = "test"
    /\ IF isOptOut(yn)
       THEN /\ OPT_OUT' = "true"
            /\ indexHtml' = sed(sed(indexHtml, GtagScript, OptOutMessage),
                                GtagComment, "")
       ELSE /\ OPT_OUT' = "false"
            /\ UNCHANGED indexHtml
    /\ pc' = "plan"
    /\ UNCHANGED <<answer, yn, tfVars, GA_OPT_OUT>>
    /\ UNCHANGED <<uiVars, utilVars, svcVars, dialogVars>>

\* terraform plan -var "opt_out=$OPT_OUT" ... into variable "opt_out"
TerraformPlan ==
    /\ pc = "plan"
    /\ tfVars' = OPT_OUT
    /\ pc' = "apply"
    /\ UNCHANGED <<answer, yn, OPT_OUT, indexHtml, GA_OPT_OUT>>
    /\ UNCHANGED <<uiVars, utilVars, svcVars, dialogVars>>

\* terraform apply: env GA_OPT_OUT of the backend service, value = var.opt_out
TerraformApply ==
    /\ pc = "apply"
    /\ GA_OPT_OUT' = tfVars
    /\ pc' = "done"
    /\ UNCHANGED <<answer, yn, OPT_OUT, indexHtml, tfVars>>
    /\ UNCHANGED <<uiVars, utilVars, svcVars, dialogVars>>

NextInstall ==
    \/ Read
    \/ DefaultAnswer
    \/ Lowercase
    \/ OptOut
    \/ TerraformPlan
    \/ TerraformApply

InitSpecInstall == InitInstall /\ IdleUI /\ IdleUtil /\ IdleSvc /\ IdleDialog

SpecInstall == InitSpecInstall /\ [][NextInstall]_vars

(***************************************************************************)
(* The three services on their own: one method is called and subscribed    *)
(* to, HttpClient is handed its request, the backend answers it.           *)
(***************************************************************************)
\* The account ID lists getCampaigns() and run() are called with.
IdLists == {<<"1">>, <<"1", "2">>}

\* The arguments run() is called with.
SvcRunArgs ==
    [accountIds : IdLists, campaignIds : IdLists,
     sourceLanguageCode : LanguageCodes, targetLanguageCode : LanguageCodes,
     shortenTranslationsToCharLimit : BOOLEAN, translateKeywords : {TRUE},
     translateAds : {TRUE}, translateExtensions : {TRUE},
     glossaryId : {"g1"}, workers : {<<TRANSLATION_WORKER>>},
     clientId : {ClientId}]

InitSvc ==
    /\ hostname \in Hostnames
    /\ http = <<>>
    /\ InitFields
    /\ IdleSvc

\* googleAdsService.getAccounts().subscribe(...)
CallGetAccounts ==
    /\ svcCall.method = "none"
    /\ svcCall' = [method |-> "getAccounts", args |-> <<>>]
    /\ svcIssued' = Append(svcIssued, getAccounts(hostname))
    /\ UNCHANGED <<svcEvent, svcNotes>>
    /\ UNCHANGED <<uiVars, utilVars, installVars, dialogVars>>

\* googleAdsService.getCampaigns(accountIds).subscribe(...)
CallGetCampaigns(accountIds) ==
    /\ svcCall.method = "none"
    /\ svcCall' = [method |-> "getCampaigns", args |-> accountIds]
    /\ svcIssued' = Append(svcIssued, getCampaigns(hostname, accountIds))
    /\ UNCHANGED <<svcEvent, svcNotes>>
    /\ UNCHANGED <<uiVars, utilVars, installVars, dialogVars>>

\* translationService.getGlossaries().subscribe(...)
CallGetGlossaries ==
    /\ svcCall.method = "none"
    /\ svcCall' = [method |-> "getGlossaries", args |-> <<>>]
    /\ svcIssued' = Append(svcIssued, getGlossaries(hostname))
    /\ UNCHANGED <<svcEvent, svcNotes>>
    /\ UNCHANGED <<uiVars, utilVars, installVars, dialogVars>>

\* runService.run(...).subscribe(...)
CallRun(args) ==
    /\ svcCall.method = "none"
    /\ svcCall' = [method |-> "run", args |-> args]
    /\ svcIssued' = Append(svcIssued, runRequest(hostname, args))
    /\ UNCHANGED <<svcEvent, svcNotes>>
    /\ UNCHANGED <<uiVars, utilVars, installVars, dialogVars>>

\* The backend answers; the pipe of the service method delivers to the
\* subscriber.
Answer(event) ==
    /\ svcCall.method # "none"
    /\ svcEvent = NoEvent
    /\ svcEvent' = event
    /\ svcNotes' = svcNotes \o delivered(servicePipe(svcIssued[1], event))
    /\ UNCHANGED <<svcCall, svcIssued>>
    /\ UNCHANGED <<uiVars, utilVars, installVars, dialogVars>>

NextSvc ==
    \/ CallGetAccounts
    \/ \E accountIds \in IdLists : CallGetCampaigns(accountIds)
    \/ CallGetGlossaries
    \/ \E args \in SvcRunArgs : CallRun(args)
    \/ \E i \in 1..Len(svcIssued) : \E event \in HttpEvents(svcIssued[i]) :
          Answer(event)

InitSpecSvc == InitSvc /\ IdleUtil /\ IdleInstall /\ IdleDialog

SpecSvc == InitSpecSvc /\ [][NextSvc]_vars

(***************************************************************************)
(* Properties of the front end.                                            *)
(***************************************************************************)
\* The key/value pairs a request carries, as query parameters or as body.
fields(request) == request.params \o request.body

\* The run requests awaiting their answer.
runsInFlight == {i \in 1..Len(http) : http[i].svc = "run"}

AllReporters == {ACCOUNTS, CAMPAIGNS, "translation"}

\* Every control of the translate tab and the tabs are enabled again; the
\* glossary control only where glossaries were loaded.
reEnabled(sg, m, tb, tr) ==
    /\ ~tb.disabled
    /\ \A c \in MultiNames : ~m[c].control.disabled
    /\ \A name \in LanguageNames : ~sg[name].disabled
    /\ tr.isGlossaryAvailable => ~sg[GLOSSARY].disabled

\* C1: requestStatus is NONE until the first run(); run() sets it to
\* REQUESTED, the success callback to RESPONDED, the error callback to ERROR;
\* nothing else changes it, it never returns to NONE, and from NONE it can
\* only become REQUESTED.
C1_RequestStatus ==
    [][LET before == content.requestStatus
           after == (content').requestStatus
       IN /\ Run => after = REQUESTED
          /\ \A i \in 1..Len(http) : \A event \in HttpEvents(http[i]) :
                RunResponse(i, event) =>
                    after = IF event.ok THEN RESPONDED ELSE ERROR
          /\ after # before =>
                \/ Run
                \/ \E i \in 1..Len(http) : \E event \in HttpEvents(http[i]) :
                      RunResponse(i, event)
          /\ before = NONE => after \in {NONE, REQUESTED}
          /\ before # NONE => after # NONE]_vars

\* A run was requested and its error callback has run.
C1_Witness == content.requestStatus = ERROR /\ ~tabs.disabled

\* C2: every run request in flight names the translation worker and carries
\* at least one account ID, at least one campaign ID and defined source and
\* target language codes.
C2_RunRequestComplete ==
    \A i \in runsInFlight :
        LET f == fields(http[i])
        IN /\ valueOf(f, "workers_to_run") = TRANSLATION_WORKER
           /\ valueOf(f, "customer_ids") \notin {"", UNDEF}
           /\ valueOf(f, "campaigns") \notin {"", UNDEF}
           /\ valueOf(f, "source_language_code") \notin {"", UNDEF}
           /\ valueOf(f, "target_language_codes") \notin {"", UNDEF}

\* C3: no run request in flight has equal source and target language
\* codes; whenever the source and target controls show the same selected
\* language, or the component holds the same code for both, the Run button
\* is disabled, and in the former case a language control carries the
\* sameLanguage error.
C3_DifferentLanguages ==
    /\ \A i \in runsInFlight :
          valueOf(fields(http[i]), "source_language_code")
              # valueOf(fields(http[i]), "target_language_codes")
    /\ (/\ single[SOURCE_LANGUAGE].value \in LanguageCodes
        /\ single[SOURCE_LANGUAGE].value = single[TARGET_LANGUAGE].value)
          => /\ \E name \in LanguageNames : "sameLanguage" \in single[name].errors
             /\ runButtonDisabled
    /\ (/\ translation.sourceLanguageCode \in LanguageCodes
        /\ translation.sourceLanguageCode = translation.targetLanguageCode)
          => runButtonDisabled

\* The same language is selected in both controls while accounts and
\* campaigns are free of errors: only the language error disables the button.
C3_Witness ==
    /\ single[SOURCE_LANGUAGE].value \in LanguageCodes
    /\ single[SOURCE_LANGUAGE].value = single[TARGET_LANGUAGE].value
    /\ ~content.translationAccountsHasValidationError
    /\ ~content.translationCampaignsHasValidationError
    /\ content.translationCampaignIds.isDef
    /\ runButtonDisabled

\* C4: the error callback of a run request sets ERROR, re-enables the tab
\* content and shows the failure message in an error snackbar, leaving the
\* dialog alone; the success callback sets RESPONDED, re-enables the tab
\* content and opens the dialog with the response body, leaving the
\* snackbar alone.
C4_RunOutcome ==
    [][\A i \in 1..Len(http) : \A event \in HttpEvents(http[i]) :
          RunResponse(i, event) =>
              /\ reEnabled(single', multi', tabs', translation')
              /\ IF event.ok
                 THEN /\ (content').requestStatus = RESPONDED
                      /\ dialog' = [open |-> TRUE, value |-> event.body]
                      /\ snackbar' = snackbar
                 ELSE /\ (content').requestStatus = ERROR
                      /\ snackbar' = [open |-> TRUE,
                                      message |-> "Http failure response for "
                                          \o event.url \o ": "
                                          \o ToString(event.status) \o " "
                                          \o event.statusText,
                                      fontIcon |-> FontIconERROR]
                      /\ dialog' = dialog]_vars

\* One run has succeeded and a later one has failed.
C4_Witness ==
    /\ content.requestStatus = ERROR
    /\ dialog.open
    /\ snackbar.open /\ snackbar.fontIcon = FontIconERROR
    /\ runsInFlight = {}

\* C5: the Run button is disabled whenever one of the three validation
\* flags is true; a flag is true until its component has reported 'no
\* validation error', so the button is enabled only after all three have.
C5_RunButtonDisabled ==
    /\ (\/ content.translationAccountsHasValidationError
        \/ content.translationCampaignsHasValidationError
        \/ content.translationHasValidationError) => runButtonDisabled
    /\ ACCOUNTS \notin reported => content.translationAccountsHasValidationError
    /\ CAMPAIGNS \notin reported => content.translationCampaignsHasValidationError
    /\ "translation" \notin reported => content.translationHasValidationError
    /\ ~runButtonDisabled => reported = AllReporters

\* The button is enabled before any run was requested.
C5_Witness ==
    /\ ~runButtonDisabled
    /\ reported = AllReporters
    /\ content.requestStatus = NONE

(***************************************************************************)
(* Properties of the services.                                             *)
(***************************************************************************)
\* The request the call handed to HttpClient.
issued == svcIssued[1]

\* An ID list of the harness as a comma-separated string.
commaJoined(ids) ==
    IF Len(ids) = 1 THEN ids[1] ELSE ids[1] \o "," \o ids[2]

\* C6: the subscriber of a service call receives exactly one outcome: the
\* response as one success notification, or, for a failed request, one
\* error notification carrying 'Http failure response for <url>: <status>
\* <statusText>' and no success notification.
C6_OneOutcome ==
    svcEvent # NoEvent =>
        /\ Len(svcNotes) = 1
        /\ IF svcEvent.ok
           THEN /\ svcNotes[1].kind = "next"
                /\ svcNotes[1].value = svcEvent
           ELSE /\ svcNotes[1].kind = "error"
                /\ svcNotes[1].value =
                       "Http failure response for " \o urlWithParams(issued)
                           \o ": " \o ToString(svcEvent.status) \o " "
                           \o svcEvent.statusText

\* A failed run request on a deployment has been answered.
C6_Witness ==
    /\ svcCall.method = "run"
    /\ hostname # "localhost"
    /\ svcEvent # NoEvent
    /\ ~svcEvent.ok
    /\ svcNotes # <<>>

\* C7: on a deployment getAccounts() and getGlossaries() issue one GET to
\* ./proxy with the endpoint name as the endpoint query parameter, and
\* getCampaigns(ids) issues one POST to ./proxy whose body carries the
\* comma-joined IDs as selected_accounts and endpoint=campaigns; on
\* localhost each is one GET to ./test-api/<api>.json.
C7_GoogleAdsRequests ==
    svcCall.method \in {"getAccounts", "getGlossaries", "getCampaigns"} =>
        LET api == CASE svcCall.method = "getAccounts" -> "accessible_accounts"
                     [] svcCall.method = "getGlossaries" -> "list_glossaries"
                     [] OTHER -> "campaigns"
        IN /\ Len(svcIssued) = 1
           /\ IF hostname = "localhost"
              THEN /\ issued.method = "GET"
                   /\ issued.pathname = "./test-api/" \o api \o ".json"
              ELSE /\ issued.pathname = "./proxy"
                   /\ IF svcCall.method = "getCampaigns"
                      THEN /\ issued.method = "POST"
                           /\ issued.params = <<>>
                           /\ Len(issued.body) = 2
                           /\ valueOf(issued.body, "selected_accounts")
                                  = commaJoined(svcCall.args)
                           /\ valueOf(issued.body, "endpoint") = "campaigns"
                      ELSE /\ issued.method = "GET"
                           /\ issued.body = <<>>
                           /\ issued.params = << <<"endpoint", api>> >>

\* getCampaigns was called with two account IDs on a deployment.
C7_Witness ==
    /\ svcCall.method = "getCampaigns"
    /\ hostname # "localhost"
    /\ Len(svcCall.args) = 2
    /\ Len(svcIssued) = 1

\* C8: on a deployment RunService.run issues one GET to ./proxy with
\* customer_ids and campaigns comma-joined, the language codes, the workers
\* to run, the client ID and endpoint=run as query parameters.
C8_RunIsGet ==
    (svcCall.method = "run" /\ hostname # "localhost") =>
        /\ Len(svcIssued) = 1
        /\ issued.method = "GET"
        /\ issued.pathname = "./proxy"
        /\ valueOf(issued.params, "customer_ids")
               = commaJoined(svcCall.args.accountIds)
        /\ valueOf(issued.params, "campaigns")
               = commaJoined(svcCall.args.campaignIds)
        /\ valueOf(issued.params, "source_language_code")
               = svcCall.args.sourceLanguageCode
        /\ valueOf(issued.params, "target_language_codes")
               = svcCall.args.targetLanguageCode
        /\ valueOf(issued.params, "workers_to_run") = TRANSLATION_WORKER
        /\ valueOf(issued.params, "client_id") = svcCall.args.clientId
        /\ valueOf(issued.params, "endpoint") = "run"

(***************************************************************************)
(* Properties of flattenAndFilter.                                         *)
(***************************************************************************)
\* C9: the result of flattenAndFilter holds exactly the values of the
\* input arrays, each once, in the order of their first occurrences in the
\* concatenation; applied to a list holding only its result it returns
\* that result.
C9_FlattenAndFilter ==
    filtered.isDef =>
        LET input == flat(arrays)
            result == filtered.val
            first(v) == CHOOSE i \in 1..Len(input) :
                            /\ input[i] = v
                            /\ \A j \in 1..(i - 1) : input[j] # v
        IN /\ {result[k] : k \in 1..Len(result)}
                  = {input[i] : i \in 1..Len(input)}
           /\ \A k, l \in 1..Len(result) : k # l => result[k] # result[l]
           /\ \A k, l \in 1..Len(result) :
                  k < l => first(result[k]) < first(result[l])
           /\ again.isDef => again.val = result

\* A value repeated across two arrays was removed, and the result was
\* flattened again.
C9_Witness ==
    /\ again.isDef
    /\ Len(arrays) = 2
    /\ \E i \in 1..Len(arrays[1]) : \E j \in 1..Len(arrays[2]) :
          arrays[1][i] = arrays[2][j]
    /\ Len(filtered.val) >= 2
    /\ Len(filtered.val) < Len(flat(arrays))

(***************************************************************************)
(* Properties of the installation.                                         *)
(***************************************************************************)
\* The answer is y or yes, in any letter case.
saysYes ==
    \/ Len(answer) = 1 /\ answer[1] \in {"y", "Y"}
    \/ /\ Len(answer) = 3
       /\ answer[1] \in {"y", "Y"}
       /\ answer[2] \in {"e", "E"}
       /\ answer[3] \in {"s", "S"}

\* The Google tag is on the index page.
hasGtag == \E i \in 1..Len(indexHtml) : indexHtml[i] = GtagScript

C11_RunButtonDisabledInFlight == runsInFlight # {} => runButtonDisabled

\* C12: at most one run request is in flight, and the run spinner is shown
\* exactly while one is.
C12_OneRunInFlight ==
    /\ Cardinality(runsInFlight) <= 1
    /\ isRunRequestedStatus <=> runsInFlight # {}

(***************************************************************************)
(* ContentComponent.run() on its own: called, as its tests call it, in     *)
(* any state of the validation flags, of the IDs the translate tab holds   *)
(* and of the translation settings.                                        *)
(***************************************************************************)
\* The ID lists a selection can have stored.
StoredIds(ids) == {Undefined} \cup {Defined(SubSeq(ids, 1, k)) : k \in 1..Len(ids)}

InitRun ==
    /\ hostname = "hostname.0.0.0.0.nip.io"
    /\ http = <<>>
    /\ \E accounts \in StoredIds(<<"a1", "a2">>) :
       \E campaigns \in StoredIds(<<"c1", "c2">>) :
       \E accountsError \in BOOLEAN :
       \E campaignsError \in BOOLEAN :
       \E translationError \in BOOLEAN :
          content = [translationAccountIds |-> accounts,
                     translationCampaignIds |-> campaigns,
                     translationAccountsHasValidationError |-> accountsError,
                     translationCampaignsHasValidationError |-> campaignsError,
                     translationHasValidationError |-> translationError,
                     requestStatus |-> NONE]
    /\ \E source \in LanguageCodes \cup {UNDEF} :
       \E target \in LanguageCodes \cup {UNDEF} :
       \E glossary \in {UNDEF, "g1"} :
       \E shorten \in BOOLEAN :
          translation = [sourceLanguageCode |-> source,
                         targetLanguageCode |-> target,
                         glossaryId |-> glossary,
                         glossaries |-> Undefined,
                         isGlossaryAvailable |-> FALSE,
                         translateKeywords |-> TRUE,
                         translateAds |-> TRUE,
                         translateExtensions |-> TRUE,
                         shortenTranslationsToCharLimit |-> shorten]
    /\ tabs = [disabled |-> FALSE]
    /\ entities = [c \in MultiNames |-> Undefined]
    /\ multi = [c \in MultiNames |->
                  [control |-> InitControl, selectedOptions |-> <<>>,
                   selected |-> {}, hasUpdatedSelection |-> FALSE,
                   checkboxesDisabled |-> FALSE]]
    /\ single = [name \in SingleNames |-> InitControl]
    /\ snackbar = NoSnackbar
    /\ dialog = NoDialog
    /\ reported = {}
    /\ chosen = {}

InitSpecRun == InitRun /\ IdleUtil /\ IdleInstall /\ IdleSvc /\ IdleDialog

NextRun == run

SpecRun == InitSpecRun /\ [][NextRun]_vars

\* An ID list of at most two IDs as a comma-separated string.
idsJoined(ids) ==
    IF Len(ids) = 1 THEN ids[1] ELSE ids[1] \o "," \o ids[2]

\* C13: the request run() sends names the translation worker and carries
\* the translate tab's account IDs, campaign IDs and translation settings
\* exactly if hasTranslationError() is false when run() is called;
\* otherwise it is sent with no worker, empty ID lists, empty language
\* codes and glossary ID and all translate flags false.
C13_RunArguments ==
    [][run =>
          LET f == fields((http')[Len(http')])
              filled == /\ ~content.translationAccountsHasValidationError
                        /\ ~content.translationCampaignsHasValidationError
                        /\ ~content.translationHasValidationError
          IN /\ Len(http') = Len(http) + 1
             /\ (http')[Len(http')].svc = "run"
             /\ IF filled
                THEN /\ valueOf(f, "workers_to_run") = TRANSLATION_WORKER
                     /\ content.translationAccountIds.isDef =>
                            valueOf(f, "customer_ids")
                                = idsJoined(content.translationAccountIds.val)
                     /\ content.translationCampaignIds.isDef =>
                            valueOf(f, "campaigns")
                                = idsJoined(content.translationCampaignIds.val)
                     /\ valueOf(f, "source_language_code")
                            = translation.sourceLanguageCode
                     /\ valueOf(f, "target_language_codes")
                            = translation.targetLanguageCode
                     /\ valueOf(f, "glossary_id") = translation.glossaryId
                     /\ valueOf(f, "shorten_translations_to_char_limit")
                            = (IF translation.shortenTranslationsToCharLimit
                               THEN "true" ELSE "false")
                     /\ valueOf(f, "translate_keywords") = "true"
                     /\ valueOf(f, "translate_ads") = "true"
                     /\ valueOf(f, "translate_extensions") = "true"
                ELSE /\ valueOf(f, "workers_to_run") = ""
                     /\ valueOf(f, "customer_ids") = ""
                     /\ valueOf(f, "campaigns") = ""
                     /\ valueOf(f, "source_language_code") = ""
                     /\ valueOf(f, "target_language_codes") = ""
                     /\ valueOf(f, "glossary_id") = ""
                     /\ valueOf(f, "shorten_translations_to_char_limit") = "false"
                     /\ valueOf(f, "translate_keywords") = "false"
                     /\ valueOf(f, "translate_ads") = "false"
                     /\ valueOf(f, "translate_extensions") = "false"]_vars

\* run() was called with a validation error and, after disable(true) had
\* cleared the flags, again without one.
C13_Witness ==
    /\ Len(http) = 2
    /\ valueOf(fields(http[1]), "workers_to_run") = ""
    /\ valueOf(fields(http[2]), "workers_to_run") = TRANSLATION_WORKER
    /\ valueOf(fields(http[2]), "customer_ids") = "a1,a2"

(***************************************************************************)
(* The front end of a customer with two accounts, a1 with the campaign c1  *)
(* and a2 with the campaign c2: every request is answered successfully,    *)
(* the campaigns request with the campaigns of the accounts it names.      *)
(***************************************************************************)
\* The campaigns of the accounts a campaigns request names.
campaignsOf(request) ==
    LET accounts == valueOf(fields(request), "selected_accounts")
    IN CASE accounts = "a1" -> <<"c1">>
         [] accounts = "a2" -> <<"c2">>
         [] accounts = "a1,a2" -> <<"c1", "c2">>
         [] accounts = "a2,a1" -> <<"c2", "c1">>
         [] OTHER -> <<>>

\* The user selects accounts and campaigns any number of times.
NextAccounts ==
    \/ \E i \in 1..Len(http) :
          AccountsResponse(i, HttpResponse(http[i], <<"a1", "a2">>))
    \/ \E i \in 1..Len(http) :
          GlossariesResponse(i, HttpResponse(http[i], <<"g1">>))
    \/ \E i \in 1..Len(http) :
          CampaignsResponse(i, HttpResponse(http[i], campaignsOf(http[i])))
    \/ \E c \in MultiNames : \E option \in {"a1", "a2", "c1", "c2"} :
          CheckboxChange(c, option)
    \/ \E c \in MultiNames : ClosePanel(c)

SpecAccounts == Init /\ [][NextAccounts]_vars

\* The same customer: the user also types into the campaigns input, selects
\* the languages and clicks Run; the glossaries request stays unanswered.
NextReselect ==
    \/ \E i \in 1..Len(http) :
          AccountsResponse(i, HttpResponse(http[i], <<"a1", "a2">>))
    \/ \E i \in 1..Len(http) :
          CampaignsResponse(i, HttpResponse(http[i], campaignsOf(http[i])))
    \/ \E c \in MultiNames : \E option \in {"a1", "a2", "c1", "c2"} :
          CheckboxChange(c, option)
    \/ \E text \in TypedTexts : TypeMulti(CAMPAIGNS, text)
    \/ \E c \in MultiNames : ClosePanel(c)
    \/ SelectLanguage(SOURCE_LANGUAGE, "en")
    \/ SelectLanguage(TARGET_LANGUAGE, "de")
    \/ Run

SpecReselect == Init /\ [][NextReselect]_vars

(* Properties of the campaigns a run request carries. *)
\* C14: a run request sent after an account selection carries only campaign
\* IDs that the user selected after that account selection.
C14_CampaignsOfThisAccountSelection ==
    [][run =>
          LET f == fields((http')[Len(http')])
          IN valueOf(f, "campaigns") # "" =>
                 \E ids \in SUBSET chosen :
                     \E order \in [1..Cardinality(ids) -> ids] :
                         /\ \A j, k \in 1..Cardinality(ids) :
                                order[j] = order[k] => j = k
                         /\ valueOf(f, "campaigns") = join(order)]_vars

(* Properties of the controls during a run. *)
\* The controls of the translate tab that are disabled.
disabledControls ==
    {c \in MultiNames : multi[c].control.disabled}
        \cup {name \in SingleNames : single[name].disabled}

\* C15: while a run request is in flight the accounts, campaigns,
\* source-language, target-language and glossary controls stay disabled: no
\* step other than the answer to a run request, a campaigns response and a
\* glossaries response included, enables one of them.
C15_DisabledDuringRun ==
    [][(/\ runsInFlight # {}
        /\ disabledControls = MultiNames \cup SingleNames
        /\ Cardinality(runsInFlight') >= Cardinality(runsInFlight))
          => disabledControls' = MultiNames \cup SingleNames]_vars

(* Properties of the campaigns offered for selection. *)
\* The campaigns requests awaiting their answer.
campaignsInFlight == {i \in 1..Len(http) : http[i].svc = "getCampaigns"}

\* C16: once the campaigns requests of the account selections made have all
\* completed, in whichever order, the campaigns offered for selection are
\* those returned for the most recent account selection.
C16_CampaignsOfLatestSelection ==
    (campaignsInFlight = {} /\ content.translationAccountIds.isDef) =>
        entities[CAMPAIGNS] =
            Defined(campaignsOf(
                getCampaigns(hostname, content.translationAccountIds.val)))

(* Properties of the glossary control. *)
\* C17: the glossary control is enabled only if glossaries have been loaded
\* successfully and the source-language and target-language controls are
\* both enabled, in every state the glossaries response, the accounts load
\* events and the run requests and their outcomes lead to.
C17_GlossaryEnabled ==
    ~single[GLOSSARY].disabled =>
        /\ translation.isGlossaryAvailable
        /\ translation.glossaries.isDef
        /\ ~single[SOURCE_LANGUAGE].disabled
        /\ ~single[TARGET_LANGUAGE].disabled

\* The glossary control is enabled again after a run was answered.
C17_Witness ==
    /\ ~single[GLOSSARY].disabled
    /\ content.requestStatus \in {RESPONDED, ERROR}
    /\ runsInFlight = {}

(***************************************************************************)
(* The accounts multi-select on its own, Select All included: the user     *)
(* checks and unchecks options, types into the input, clears it and closes *)
(* the panel; the campaigns requests stay unanswered.                      *)
(***************************************************************************)
\* The account lists the backend answers with.
AccountLists == {<<"a1">>, <<"a1", "a2">>, <<"a1", "a2", "a3">>}

NextSelectAll ==
    \/ \E i \in 1..Len(http) : \E body \in AccountLists :
          AccountsResponse(i, HttpResponse(http[i], body))
    \/ \E option \in {SelectAllOptionId, "a1", "a2", "a3"} :
          CheckboxChange(ACCOUNTS, option)
    \/ \E text \in TypedTexts \cup {""} : TypeMulti(ACCOUNTS, text)
    \/ ClosePanel(ACCOUNTS)

SpecSelectAll == Init /\ [][NextSelectAll]_vars

\* The elements of a sequence.
elements(seq) == {seq[k] : k \in 1..Len(seq)}

\* C18: 'Select All' is offered only when more than one value is listed;
\* checking it makes the selection consist of every listed option and
\* disables the individual checkboxes; unchecking it clears the whole
\* selection and enables them again; while it is checked, toggling an
\* individual option leaves the selection unchanged.
C18_SelectAll ==
    /\ [](\A c \in MultiNames :
            SelectAllOptionId \in elements(selectionValues(entities[c]))
                <=> (entities[c].isDef /\ Len(entities[c].val) > 1))
    /\ [][\A option \in {SelectAllOptionId, "a1", "a2", "a3"} :
            CheckboxChange(ACCOUNTS, option) =>
                LET m == multi[ACCOUNTS]
                    after == (multi')[ACCOUNTS]
                    checked == SelectAllOptionId \in m.selected
                IN /\ (option = SelectAllOptionId /\ ~checked) =>
                         /\ elements(after.selectedOptions) \ {SelectAllOptionId}
                                = elements(entities[ACCOUNTS].val)
                         /\ Len(after.selectedOptions)
                                = Len(entities[ACCOUNTS].val) + 1
                         /\ emitted(after) = entities[ACCOUNTS].val
                         /\ after.checkboxesDisabled
                         /\ SelectAllOptionId \in after.selected
                   /\ (option = SelectAllOptionId /\ checked) =>
                         /\ after.selectedOptions = <<>>
                         /\ ~after.checkboxesDisabled
                         /\ after.selected = {}
                   /\ (option # SelectAllOptionId /\ checked) =>
                         /\ after.selectedOptions = m.selectedOptions
                         /\ after.checkboxesDisabled = m.checkboxesDisabled
                         /\ SelectAllOptionId \in after.selected]_vars

\* Select All is checked over three listed accounts, the individual
\* checkboxes are disabled, and of the accounts checked on their own before
\* only a2 still has its flag.
C18_Witness ==
    /\ entities[ACCOUNTS] = Defined(<<"a1", "a2", "a3">>)
    /\ multi[ACCOUNTS].selectedOptions = <<SelectAllOptionId, "a1", "a2", "a3">>
    /\ multi[ACCOUNTS].selected = {SelectAllOptionId, "a2"}
    /\ multi[ACCOUNTS].checkboxesDisabled

(***************************************************************************)
(* dialog/dialog.component.ts: the result dialog, constructed with the     *)
(* data of FormComponent.openDialog(status, value), of                     *)
(* ContentComponent.openDialog(value), which passes no status, or of a     *)
(* test.  An Output is a list of key/value pairs; the value of its         *)
(* asset_urls key is handed on as it is and stands here as one string.     *)
(***************************************************************************)
\* enum ResponseStatus
ResponseStatusSUCCESS == 200
ResponseStatusSERVER_ERROR == 500

\* enum ResponseMessage
ResponseMessageSERVER_ERROR ==
    "Failed to process request. A developer can check the logs for details."
ResponseMessageUNKNOWN_ERROR ==
    "Unknown error. A developer can check the logs for details."

\* The statuses a dialog is opened with: none, 0 (FormComponent's error
\* callback), those of successful responses, and those of failures.
DialogStatuses ==
    {Undefined} \cup {Defined(status) :
        status \in {0, ResponseStatusSUCCESS, 201, 404, ResponseStatusSERVER_ERROR}}

\* The values of asset_urls.
AssetUrls == {"{}", "{csv: [a.csv]}", "{xlsx: [a.xlsx]}", "{csv: [a.csv], xlsx: [a.xlsx]}"}

\* The values a dialog is opened with: null, or an Output.
DialogValues ==
    {Undefined} \cup {Defined(<<>>)}
        \cup {Defined(<< <<"asset_urls", urls>> >>) : urls \in AssetUrls}
        \cup {Defined(<< <<"worker_results", "{}">>, <<"asset_urls", urls>> >>) :
                 urls \in AssetUrls}

\* A plausible slip: the asset URLs are read whatever the status.
ngOnInitAnyStatus(data) ==
    [state |-> "initialised",
     assetUrls |-> IF data.value.isDef
                   THEN valueOf(data.value.val, "asset_urls") ELSE UNDEF,
     message |-> IF data.status = Defined(ResponseStatusSERVER_ERROR)
                 THEN ResponseMessageSERVER_ERROR
                 ELSE IF data.status = Defined(ResponseStatusSUCCESS) THEN UNDEF
                 ELSE ResponseMessageUNKNOWN_ERROR,
     status |-> IF data.status \in {Defined(ResponseStatusSUCCESS),
                                    Defined(ResponseStatusSERVER_ERROR)}
                THEN data.status ELSE Undefined]

\* DialogComponent.ngOnInit(): the component's fields afterwards.  Reading
\* value['asset_urls'] of a null value throws after status has been set.
ngOnInit(data) ==
    IF data.status = Defined(ResponseStatusSUCCESS)
    THEN [state |-> "initialised",
          assetUrls |-> IF data.value.isDef
                        THEN valueOf(data.value.val, "asset_urls") ELSE UNDEF,
          message |-> UNDEF,
          status |-> Defined(ResponseStatusSUCCESS)]
    ELSE IF data.status = Defined(ResponseStatusSERVER_ERROR)
    THEN [state |-> "initialised", assetUrls |-> UNDEF,
          message |-> ResponseMessageSERVER_ERROR,
          status |-> Defined(ResponseStatusSERVER_ERROR)]
    ELSE [state |-> "initialised", assetUrls |-> UNDEF,
          message |-> ResponseMessageUNKNOWN_ERROR,
          status |-> Undefined]

\* this.dialog.open(DialogComponent, {data}): the component is constructed.
DialogOpen(data) ==
    /\ dialogComponent.state = "closed"
    /\ dialogData' = data
    /\ dialogComponent' = [dialogComponent EXCEPT !.state = "constructed"]
    /\ UNCHANGED <<uiVars, utilVars, installVars, svcVars>>

\* Angular's first change detection of the dialog: ngOnInit().
DialogInit ==
    /\ dialogComponent.state = "constructed"
    /\ dialogComponent' = ngOnInit(dialogData)
    /\ UNCHANGED dialogData
    /\ UNCHANGED <<uiVars, utilVars, installVars, svcVars>>

\* The user closes the dialog: the component is destroyed.
DialogClose ==
    /\ dialogComponent.state = "initialised"
    /\ dialogData' = [status |-> Undefined, value |-> Undefined]
    /\ dialogComponent' = [state |-> "closed", assetUrls |-> UNDEF,
                           message |-> UNDEF, status |-> Undefined]
    /\ UNCHANGED <<uiVars, utilVars, installVars, svcVars>>

NextDialog ==
    \/ \E status \in DialogStatuses : \E value \in DialogValues :
          DialogOpen([status |-> status, value |-> value])
    \/ DialogInit
    \/ DialogClose

InitSpecDialog == IdleDialog /\ IdleUI /\ IdleUtil /\ IdleInstall /\ IdleSvc

SpecDialog == InitSpecDialog /\ [][NextDialog]_vars

\* C19: the result dialog sets its asset URLs, from the asset_urls of the
\* value it was opened with, only when the status it was opened with is
\* 200; with status 500 it shows the server-error message, and with any
\* other or a missing status the unknown-error message; in both error cases
\* no asset URLs are set.
C19_DialogByStatus ==
    dialogComponent.state = "initialised" =>
        /\ dialogComponent.assetUrls # UNDEF =>
              /\ dialogData.status = Defined(200)
              /\ dialogData.value.isDef
              /\ dialogComponent.assetUrls
                     = valueOf(dialogData.value.val, "asset_urls")
        /\ dialogData.status = Defined(500) =>
              /\ dialogComponent.message =
                     "Failed to process request. "
                         \o "A developer can check the logs for details."
              /\ dialogComponent.assetUrls = UNDEF
        /\ dialogData.status \notin {Defined(200), Defined(500)} =>
              /\ dialogComponent.message =
                     "Unknown error. "
                         \o "A developer can check the logs for details."
              /\ dialogComponent.assetUrls = UNDEF
        /\ dialogData.status = Defined(200) => dialogComponent.message = UNDEF

\* A dialog opened with status 500 and a value that holds asset URLs shows
\* the server-error message.
C19_Witness ==
    /\ dialogComponent.state = "initialised"
    /\ dialogData.status = Defined(500)
    /\ dialogData.value = Defined(<< <<"asset_urls", "{csv: [a.csv]}">> >>)
    /\ dialogComponent.message = ResponseMessageSERVER_ERROR

=============================================================================
